---- MODULE Spec2Model ----
(***************************************************************************)
(* PlayNexus System Monitor.                                               *)
(*                                                                         *)
(* State machines over one set of variables:                               *)
(*   - the sampler of src/main.js: the periodic timer, the in-flight       *)
(*     samples of getSystemData and the messages sent on the               *)
(*     'system-data-update' channel (specification Spec), and one sample   *)
(*     by value (SampleSpec);                                              *)
(*   - the plugin system of src/renderer/js/app.js: the metadata map, the  *)
(*     config map, the active set, the plugin tabs of the DOM and the      *)
(*     asynchronous operations in flight (PluginSpec), the metadata of     *)
(*     files of every shape (MetadataSpec), startup alone under fairness   *)
(*     (StartupSpec) and the storage of the plugin API (StorageSpec);      *)
(*   - the dashboard of src/renderer/js/app.js: the line charts            *)
(*     (ChartSpec) and the file event log (FileEventSpec).                 *)
(***************************************************************************)
EXTENDS Integers, Sequences, FiniteSets, TLC

(***************************************************************************)
(* Bounds of the model.                                                    *)
(***************************************************************************)
\* number of timer ticks a behaviour may contain
MaxTicks == 2
\* number of samples whose provider calls may be pending at once
MaxInflight == 2
\* number of plugin operations (toggle, reload, delete, refresh) in flight at once
MaxTasks == 2
\* number of DOM elements a plugin tab id may have at once
MaxTabs == 2
\* number of user operations on the plugin manager a behaviour may contain
MaxOps == 2
\* number of dashboard updates a behaviour may contain
MaxUpdates == 22
\* number of file events a behaviour may contain
MaxEvents == 102

(***************************************************************************)
(* Program constants.                                                      *)
(***************************************************************************)
\* config.monitoring.interval of the built-in configuration
DefaultInterval == 5000
\* the value of systemMonitorInterval while no handle is stored
NoTimer == 0
\* the number of data points updateChart keeps
WindowSize == 20
\* the number of entries handleFileEvent keeps
LogSize == 100

VARIABLES
    \* ---- main process (src/main.js) ----
    phase,                  \* "boot" | "running" | "quit"
    darwin,                 \* process.platform === 'darwin'
    config,                 \* the config object: key -> section
    mainWindow,             \* "open" | "null"
    systemMonitorInterval,  \* handle of the last setInterval, or NoTimer
    timers,                 \* active periodic timers: [id, delay]
    nextTick,               \* number the next tick gets
    inflight,               \* samples awaiting their provider calls
    sent,                   \* messages sent on 'system-data-update'
    \* ---- plugin system (src/renderer/js/app.js) ----
    directory,              \* the plugin directory: "present" | "absent"
    files,                  \* the module sources in the plugin directory
    pluginConfigFile,       \* plugins/plugin-config.json: absent or a map
    plugins,                \* this.plugins: path -> metadata
    pluginConfigs,          \* this.pluginConfigs: path -> config entry
    activePlugins,          \* this.activePlugins
    navItems,               \* sidebar items per plugin tab id
    tabContents,            \* tab content elements per plugin tab id
    initTask,               \* PluginSystem.init(): its position
    tasks,                  \* user operations suspended on an await
    opCount,                \* user operations issued so far
    notification,           \* the notification shown last
    \* ---- dashboard (src/renderer/js/app.js) ----
    charts,                 \* this.charts: name -> chart, absent or its data
    series,                 \* the readings the snapshots carry
    updates,                \* snapshots the dashboard has been given
    pushed,                 \* per chart, every value given to updateChart
    eventsLog,              \* children of #fileEventsLog, absent without it
    eventKinds,             \* the kind of changes the watched paths see
    received,               \* every event given to handleFileEvent
    storage,                \* localStorage: item name -> string
    owned,                  \* per module and key, the value it stored last
    returned,               \* what the last api.getStorage call returned
    \* ---- one sample of getSystemData, by value (src/main.js) ----
    provided,               \* what the four provider calls answered
    snapshot                \* what getSystemData returned for them

svars == <<phase, darwin, config, mainWindow, systemMonitorInterval, timers,
           nextTick, inflight, sent>>

pvars == <<directory, files, pluginConfigFile, plugins, pluginConfigs, activePlugins,
           navItems, tabContents, initTask, tasks, opCount, notification>>

chartVars == <<charts, series, updates, pushed>>
logVars == <<eventsLog, eventKinds, received>>

storeVars == <<storage, owned, returned>>

sampleVars == <<provided, snapshot>>

cvars == <<chartVars, logVars, storeVars, sampleVars>>

vars == <<svars, pvars, cvars>>

(***************************************************************************)
(* Values.                                                                 *)
(***************************************************************************)
\* an absent JavaScript value, and a present one
Undefined == {}
Some(v) == {v}

\* what getSystemData returns when the sample fails
Null == [isNull |-> TRUE]

\* the four sub-queries of one sample
Queries == {"cpu", "mem", "disk", "network"}

\* const config = {...}
DefaultConfig ==
    [monitoring  |-> [enabled |-> TRUE, interval |-> DefaultInterval,
                      fileWatching |-> TRUE],
     ui          |-> [theme |-> "cyberpunk"],
     performance |-> [lowMode |-> FALSE]]

\* configuration documents: the parsed config.json of loadConfig and the
\* newConfig argument of the save-config handler
ConfigDocs ==
    { [ui |-> [theme |-> "cyberpunk"]],
      [monitoring |-> [enabled |-> TRUE, cpu |-> TRUE]],
      [monitoring |-> [enabled |-> TRUE, interval |-> 1000,
                       fileWatching |-> TRUE]],
      [monitoring |-> [enabled |-> FALSE, interval |-> DefaultInterval,
                       fileWatching |-> FALSE]] }

\* Object.assign(target, source): a shallow merge, key by key
ObjectAssign(target, source) ==
    [k \in (DOMAIN target) \cup (DOMAIN source) |->
        IF k \in DOMAIN source THEN source[k] ELSE target[k]]

\* the expression config.monitoring.interval
MonitoringInterval(cfg) ==
    IF "interval" \in DOMAIN cfg.monitoring
    THEN Some(cfg.monitoring.interval)
    ELSE Undefined

\* the condition config.monitoring.enabled
MonitoringEnabled(cfg) ==
    "enabled" \in DOMAIN cfg.monitoring /\ cfg.monitoring.enabled

\* the handle a new setInterval returns: distinct from every live one
FreshTimer(used) ==
    CHOOSE i \in 1..(Cardinality(used) + 1) : i \notin used

TimerIds(ts) == {t.id : t \in ts}

(***************************************************************************)
(* startSystemMonitoring / stopSystemMonitoring, as state transformers on  *)
(* <<systemMonitorInterval, timers>>.                                      *)
(***************************************************************************)
\* clearInterval(handle)
ClearInterval(ts, handle) == {t \in ts : t.id # handle}

\* startSystemMonitoring without its clearInterval of the running timer
StartedTimers_NoClear(handle, ts, cfg) ==
    ts \cup {[id |-> FreshTimer(TimerIds(ts) \cup {handle}),
              delay |-> MonitoringInterval(cfg)]}

StartedTimers(handle, ts, cfg) ==
    LET cleared == IF handle # NoTimer THEN ClearInterval(ts, handle) ELSE ts
        id      == FreshTimer(TimerIds(ts) \cup {handle})
    IN  cleared \cup {[id |-> id, delay |-> MonitoringInterval(cfg)]}

StartedHandle(handle, ts) == FreshTimer(TimerIds(ts) \cup {handle})

\* stopSystemMonitoring that drops the handle without clearInterval
StoppedTimers_Leak(handle, ts) == ts

StoppedTimers(handle, ts) ==
    IF handle # NoTimer THEN ClearInterval(ts, handle) ELSE ts

StoppedHandle(handle) == NoTimer

(***************************************************************************)
(* getSystemData: Promise.all over the four provider calls.                *)
(***************************************************************************)
\* state of Promise.all([...]) over the sub-query states q
PromiseAll(q) ==
    IF \E k \in Queries : q[k] = "rejected" THEN "rejected"
    ELSE IF \A k \in Queries : q[k] = "fulfilled" THEN "fulfilled"
    ELSE "pending"

\* getSystemData that assembles whatever sub-queries were fulfilled
getSystemData_Partial(q) ==
    LET whole == [cpu     |-> [load |-> q["cpu"]],
                  memory  |-> [total |-> q["mem"]],
                  disk    |-> [fs |-> q["disk"]],
                  network |-> [rx_sec |-> q["network"]]]
        from  == [cpu |-> "cpu", memory |-> "mem", disk |-> "disk",
                  network |-> "network"]
    IN  [f \in {g \in DOMAIN whole : q[from[g]] = "fulfilled"} |-> whole[f]]

\* the value getSystemData resolves with once Promise.all has settled
getSystemData(q) ==
    IF PromiseAll(q) = "fulfilled"
    THEN [cpu     |-> [load |-> q["cpu"]],
          memory  |-> [total |-> q["mem"]],
          disk    |-> [fs |-> q["disk"]],
          network |-> [rx_sec |-> q["network"]]]
    ELSE Null

(***************************************************************************)
(* getSystemData by value: the object built from the four provider         *)
(* results.  Numbers are integers; a quotient is kept exact as a fraction, *)
(* and a decimal string with one fractional digit is kept as its number of *)
(* tenths.                                                                 *)
(***************************************************************************)
\* what systeminformation.currentLoad() answers: the overall load and one
\* entry per core (the entries carry no temperature)
CpuResults ==
    { [currentLoad |-> c, cpus |-> cores] :
        c \in {0, 42},
        cores \in {<<>>, <<[load |-> 40]>>, <<[load |-> 40], [load |-> 44]>>} }

\* what systeminformation.mem() answers: total > 0 and used <= total
MemResults ==
    { [total |-> m[1], used |-> m[2], free |-> m[1] - m[2], active |-> m[2],
       available |-> m[1] - m[2]] :
        m \in {n \in {3, 8, 1000} \X {0, 1, 2, 500} : n[2] <= n[1]} }

\* the entries systeminformation.fsSize() answers with
DiskEntries ==
    { [fs |-> "/dev/sda1", size |-> 100, used |-> 70, available |-> 30,
       use |-> 70],
      [fs |-> "/dev/sdb1", size |-> 10, used |-> 3, available |-> 7,
       use |-> 30] }

\* the entries systeminformation.networkStats() answers with (no field
\* `connections`)
NetworkEntries ==
    { [iface |-> "eth0", rx_sec |-> 100, tx_sec |-> 50],
      [iface |-> "lo", rx_sec |-> 0, tx_sec |-> 7] }

\* the sequences of at most two entries
UpToTwo(S) == {<<>>} \cup {<<a>> : a \in S} \cup {<<a, b>> : a \in S, b \in S}

\* the values Date.now() returns
Clock == {1, 2}

\* the four values Promise.all resolves with
ProviderResults ==
    [cpu : CpuResults, mem : MemResults, disk : UpToTwo(DiskEntries),
     network : UpToTwo(NetworkEntries)]

\* Promise.all rejected: one of the provider calls failed
Rejected == [rejected |-> TRUE]

\* getSystemData has not returned yet
Pending == [pending |-> TRUE]

\* seq[0]?.field : undefined when the sequence is empty or the entry has no
\* such field
FirstField(seq, field) ==
    IF seq # <<>> /\ field \in DOMAIN seq[1] THEN Some(seq[1][field])
    ELSE Undefined

\* value || 0
OrZero(value) ==
    IF value = Undefined THEN 0 ELSE CHOOSE v \in value : TRUE

\* (num / den).toFixed(1) that cuts the digits after the first
toFixed1_Truncate(num, den) == [tenths |-> (10 * num) \div den]

\* (num / den).toFixed(1): the decimal string with one fractional digit
\* nearest to the quotient
toFixed1(num, den) == [tenths |-> (2 * 10 * num + den) \div (2 * den)]

\* the object getSystemData returns
SystemData(cpu, mem, disk, network, now) ==
    [cpu |-> [load |-> cpu.currentLoad,
              cores |-> Len(cpu.cpus),
              temperature |-> OrZero(FirstField(cpu.cpus, "temperature"))],
     memory |-> [total |-> mem.total,
                 used |-> mem.used,
                 free |-> mem.free,
                 active |-> mem.active,
                 available |-> mem.available,
                 percentage |-> toFixed1(mem.used * 100, mem.total)],
     disk |-> [i \in 1..Len(disk) |->
                  [fs |-> disk[i].fs, size |-> disk[i].size,
                   used |-> disk[i].used, available |-> disk[i].available,
                   percentage |-> disk[i].use]],
     network |-> [rx_sec |-> OrZero(FirstField(network, "rx_sec")),
                  tx_sec |-> OrZero(FirstField(network, "tx_sec")),
                  connections |-> OrZero(FirstField(network, "connections"))],
     timestamp |-> now]

\* a callback that sends its result twice
TickSend_Twice(log, window, tick, data) ==
    IF window = "null"
    THEN log
    ELSE log \o <<[tick |-> tick, data |-> data], [tick |-> tick, data |-> data]>>

\* the body of the setInterval callback after `await getSystemData()`:
\* the messages sent afterwards
TickSend(log, window, tick, data) ==
    IF window = "null"
    THEN log    \* mainWindow.webContents throws, caught and logged
    ELSE Append(log, [tick |-> tick, data |-> data])

(***************************************************************************)
(* Plugin system: values.                                                  *)
(***************************************************************************)
\* the .js files of the plugin directory, in directory order
PathOrder == <<"a.js", "b.js">>
Paths == {PathOrder[i] : i \in 1..Len(PathOrder)}

\* the tab id a module passes to api.createTab: the sample plugins pass their
\* name without the .js suffix ('network-monitor' in network-monitor.js)
Stem == [p \in Paths |-> IF p = "a.js" THEN "a" ELSE "b"]
TabIds == Paths \cup {Stem[p] : p \in Paths}

\* a Map without entries
EmptyMap == [p \in {} |-> TRUE]

\* the text of a module, as the tokens extractPluginMetadata tells apart
\* (white space, which its pattern skips, is left out): the delimiters of a
\* comment, the @plugin tag, braces, a "key": value member of a JSON object,
\* and any other code
Tok(kind) == [kind |-> kind, key |-> "", value |-> ""]
Field(key, value) == [kind |-> "field", key |-> key, value |-> value]
CommentOpen == Tok("/*")
CommentClose == Tok("*/")
PluginTag == Tok("@plugin")
BraceOpen == Tok("{")
BraceClose == Tok("}")
Code == Tok("code")

\* the block of the bundled sample plugin, and its text
SamplePayload ==
    <<Field("name", "Network Monitor"), Field("version", "1.0.0"),
      Field("author", "PlayNexus"), Field("description", "Advanced")>>
BlockOpen == <<CommentOpen, PluginTag, BraceOpen>>
BlockClose == <<BraceClose, CommentClose>>
SampleText == BlockOpen \o SamplePayload \o BlockClose \o <<Code>>

\* texts a plugin file can have: code, then a comment that may lack its tag
\* or its brace, a payload of members, of members and other text, or with a
\* stray brace, an end that may lack its brace or the end of the comment,
\* then code
Pres == {<<>>, <<Code>>}
Opens == {BlockOpen, <<CommentOpen, BraceOpen>>, <<CommentOpen, PluginTag>>, <<>>}
Payloads ==
    {<<>>,
     SamplePayload,
     <<Field("name", "Clock"), Field("version", "0.1.0")>>,
     <<Field("name", "Clock"), Field("name", "Watch")>>,
     <<Field("name", "Clock"), Code>>,
     <<Field("name", "Clock"), BraceClose, Field("version", "0.1.0")>>}
Closes == {BlockClose, <<CommentClose>>, <<BraceClose>>}
Shapes == [pre : Pres, open : Opens, payload : Payloads, close : Closes,
           post : Pres]
Text(shape) ==
    shape.pre \o shape.open \o shape.payload \o shape.close \o shape.post

\* module sources. text: what readFile answers, absent when the file cannot
\* be read; top: the top-level code; init: exports.init, absent or how its
\* promise settles; tab: the id init passes to api.createTab as its first
\* statement
SampleModule     == [text |-> Some(SampleText), top |-> "ok", init |-> "ok",     tab |-> "stem"]
PathTabModule    == [text |-> Some(SampleText), top |-> "ok", init |-> "ok",     tab |-> "path"]
NoInitModule     == [text |-> Some(SampleText), top |-> "ok", init |-> "none",   tab |-> "none"]
InitThrowsModule == [text |-> Some(SampleText), top |-> "ok", init |-> "throws", tab |-> "stem"]
TopThrowsModule  == [text |-> Some(SampleText), top |-> "throws", init |-> "none", tab |-> "none"]

\* a module whose init returns a promise that never settles
InitHangsModule  == [text |-> Some(SampleText), top |-> "ok", init |-> "hangs",  tab |-> "stem"]

Modules ==
    {SampleModule, PathTabModule, NoInitModule, InitThrowsModule,
     TopThrowsModule}

\* contents plugin-config.json can have at startup
StoredConfigs ==
    {Undefined,
     Some([p \in Paths |-> [enabled |-> TRUE]]),
     Some([p \in Paths |-> [enabled |-> p = PathOrder[1]]])}

\* the least element of a set of numbers
Min(S) == CHOOSE x \in S : \A y \in S : x <= y

\* the pattern of extractPluginMetadata from the "{" at i + 2 on: the lazy
\* group ends at a "}" that the end of the comment follows
GroupEnds(text, i) ==
    {j \in (i + 3)..(Len(text) - 1) :
        text[j] = BraceClose /\ text[j + 1] = CommentClose}

\* the positions at which the pattern matches
MatchStarts(text) ==
    {i \in 1..(Len(text) - 4) :
        /\ text[i] = CommentOpen
        /\ text[i + 1] = PluginTag
        /\ text[i + 2] = BraceOpen
        /\ GroupEnds(text, i) # {}}

\* metadataMatch[1]: the group of the leftmost match, ended as early as
\* possible
MatchGroup(text) ==
    LET i == Min(MatchStarts(text))
    IN  SubSeq(text, i + 2, Min(GroupEnds(text, i)))

\* JSON.parse that takes anything between the braces for a member
JSONParse_Lenient(group) ==
    LET inner == SubSeq(group, 2, Len(group) - 1)
        at(key) == {k \in 1..Len(inner) : inner[k].key = key}
    IN  Some([key \in {inner[k].key : k \in 1..Len(inner)} |->
                inner[CHOOSE k \in at(key) : \A l \in at(key) : l <= k].value])

\* JSON.parse(metadataMatch[1]): the object of the members between the
\* braces, the last member of a key winning; absent for the SyntaxError
JSONParse(group) ==
    LET inner == SubSeq(group, 2, Len(group) - 1)
        at(key) == {k \in 1..Len(inner) : inner[k].key = key}
    IN  IF \A k \in 1..Len(inner) : inner[k].kind = "field"
        THEN Some([key \in {inner[k].key : k \in 1..Len(inner)} |->
                inner[CHOOSE k \in at(key) : \A l \in at(key) : l <= k].value])
        ELSE Undefined

\* extractPluginMetadata(content): content.match throws the TypeError on the
\* null of an unreadable file; the SyntaxError of JSON.parse is caught
extractPluginMetadata(content) ==
    IF content = Undefined
    THEN [thrown |-> TRUE, value |-> Undefined]
    ELSE LET text == CHOOSE t \in content : TRUE
         IN  IF MatchStarts(text) = {}
             THEN [thrown |-> FALSE, value |-> Undefined]
             ELSE [thrown |-> FALSE, value |-> JSONParse(MatchGroup(text))]

\* loadPluginMetadata(pluginPath): this.plugins afterwards
loadPluginMetadata(map, path, src) ==
    LET extracted == extractPluginMetadata(src.text)
        metadata == extracted.value
    IN  IF ~extracted.thrown /\ metadata # Undefined
        THEN [q \in (DOMAIN map) \cup {path} |->
                IF q = path THEN CHOOSE m \in metadata : TRUE ELSE map[q]]
        ELSE map

\* config?.enabled
ConfigEnabled(cfgs, path) == path \in DOMAIN cfgs /\ cfgs[path].enabled

\* togglePlugin: config.enabled = enabled; this.pluginConfigs.set(path, config)
SetEnabled(cfgs, path, enabled) ==
    [q \in (DOMAIN cfgs) \cup {path} |->
        IF q = path THEN [enabled |-> enabled] ELSE cfgs[q]]

\* Map.delete(path)
MapDelete(map, path) == [q \in (DOMAIN map) \ {path} |-> map[q]]

\* `pluginModule && pluginModule.init` of loadPlugin, over createPluginModule
HasInit(src) == src.top = "ok" /\ src.init # "none"

\* reading the source, running its top-level code and awaiting its init raise
\* no exception
LoadsCleanly(src) == src.top = "ok" /\ src.init \in {"none", "ok"}

\* the id of the tab the init of the module at path creates, if any
CreatedTabs(path, src) ==
    IF src.tab = "stem" THEN {Stem[path]}
    ELSE IF src.tab = "path" THEN {path}
    ELSE {}

\* createPluginTab(id, ...): one more element under the id
createPluginTab(dom, ids) ==
    [i \in TabIds |-> IF i \in ids THEN dom[i] + 1 ELSE dom[i]]

\* removePluginTab(id): the first element found under the id is removed
removePluginTab(dom, id) ==
    [i \in TabIds |-> IF i = id /\ dom[i] > 0 THEN dom[i] - 1 ELSE dom[i]]

\* unloadPlugin(pluginPath): removePluginTab(pluginPath), activePlugins.delete
UnloadedDom(dom, path) == removePluginTab(dom, path)
UnloadedActive(active, path) == active \ {path}

\* activePlugins.add also when the promise of init rejected
LoadedActive_IgnoreThrow(active, path, src) ==
    IF HasInit(src) THEN active \cup {path} ELSE active

\* loadPlugin once init has settled: activePlugins.add on success
LoadedActive(active, path, src) ==
    IF HasInit(src) /\ src.init = "ok" THEN active \cup {path} ELSE active

\* room for the tabs the init of src creates
TabRoom(dom, path, src) ==
    \A i \in CreatedTabs(path, src) : dom[i] < MaxTabs

\* the id of a new task
FreeTaskIds == (1..MaxTasks) \ {t.id : t \in tasks}
NewTask(op, path, enabled, pc, payload, todo) ==
    [id |-> CHOOSE i \in FreeTaskIds : \A j \in FreeTaskIds : i <= j,
     op |-> op, path |-> path, enabled |-> enabled, pc |-> pc,
     payload |-> payload, todo |-> todo]

\* uiUtils.showNotification(message, type): nothing shown yet, and what an
\* operation shows when it ends
NoNotification == [message |-> "", type |-> "none"]
Notified(t) ==
    IF t.op = "toggle"
    THEN [message |-> IF t.enabled THEN "Plugin enabled" ELSE "Plugin disabled",
          type |-> "success"]
    ELSE IF t.op = "reload"
    THEN [message |-> "Plugin reloaded", type |-> "success"]
    ELSE IF t.op = "delete"
    THEN [message |-> "Plugin deleted", type |-> "success"]
    ELSE [message |-> "Plugins refreshed", type |-> "success"]

\* the notification on display once the loadPlugin of t has ended:
\* reloadPlugin notifies at once, togglePlugin saves first
AfterLoadNotified(t, shown) ==
    IF t.op = "reload" THEN Notified(t) ELSE shown

\* what follows loadPlugin in the operation that awaited it: togglePlugin goes
\* on to savePluginConfigs, which serialises the map and awaits the write;
\* reloadPlugin only notifies
AfterLoad(t, cfgs) ==
    IF t.op = "toggle"
    THEN {[t EXCEPT !.pc = "write", !.payload = cfgs]}
    ELSE {}

\* the line charts of the dashboard
ChartNames == {"cpu", "memory", "network"}

\* a chart as initCharts creates it
NewChart == [labels |-> <<>>, data |-> <<>>]

\* the reading snapshot n carries: rising, alternating or constant
SeriesNames == {"ramp", "alternating", "flat"}
Reading(name, n) ==
    IF name = "ramp" THEN n
    ELSE IF name = "alternating" THEN n % 2
    ELSE 50

\* keys and values the modules store
StorageKeys == {"settings", "games"}
StorageValues == {1, 2}

\* the name of the localStorage item of a key
ItemName(key) == <<"plugin_", key>>

\* JSON.stringify(value) and JSON.parse(string)
JSONStringify(value) == [json |-> value]
JSONParseItem(string) == string.json

\* localStorage.getItem(name): absent for null
GetItem(store, name) ==
    IF name \in DOMAIN store THEN Some(store[name]) ELSE Undefined

\* getPluginStorage(key): the value, absent for null
getPluginStorage(store, key) ==
    LET item == GetItem(store, ItemName(key))
    IN  IF item # Undefined
        THEN Some(JSONParseItem(CHOOSE i \in item : TRUE))
        ELSE Undefined

\* setPluginStorage(key, value): localStorage afterwards
setPluginStorage(store, key, value) ==
    [n \in (DOMAIN store) \cup {ItemName(key)} |->
        IF n = ItemName(key) THEN JSONStringify(value) ELSE store[n]]

\* the 'file-event' message number n of startFileWatcher
EventKinds == {"add", "change", "unlink", "mixed"}
FileEvent(kinds, n) ==
    [type |-> IF kinds # "mixed" THEN kinds
              ELSE IF n % 3 = 0 THEN "add"
              ELSE IF n % 3 = 1 THEN "change"
              ELSE "unlink",
     path |-> "/watched/file",
     timestamp |-> n]

\* an element the page has in the log before any event
Placeholder == [type |-> "none", path |-> "", timestamp |-> 0]

RECURSIVE RemoveLastWhileOver(_, _)
\* while (children.length > size) removeChild(lastChild)
RemoveLastWhileOver(children, size) ==
    IF Len(children) > size
    THEN RemoveLastWhileOver(SubSeq(children, 1, Len(children) - 1), size)
    ELSE children

\* handleFileEvent that drops the first child, the newest, on overflow
handleFileEvent_DropNewest(log, event) ==
    IF log = Undefined THEN log
    ELSE LET children == <<event>> \o (CHOOSE l \in log : TRUE)
         IN  Some(IF Len(children) > LogSize THEN Tail(children) ELSE children)

\* handleFileEvent(event): the children of the log afterwards
handleFileEvent(log, event) ==
    IF log = Undefined THEN log
    ELSE LET children == <<event>> \o (CHOOSE l \in log : TRUE)
         IN  Some(RemoveLastWhileOver(children, LogSize))

\* updateChart that never drops a data point
updateChart_NoShift(chart, now, value) ==
    IF chart = Undefined THEN chart
    ELSE LET c == CHOOSE x \in chart : TRUE
         IN  Some([labels |-> Append(c.labels, now),
                   data |-> Append(c.data, value)])

\* updateChart(chart, value) at time now: the chart afterwards
updateChart(chart, now, value) ==
    IF chart = Undefined THEN chart
    ELSE LET c == CHOOSE x \in chart : TRUE
             labels == Append(c.labels, now)
             data == Append(c.data, value)
         IN  IF Len(labels) > WindowSize
             THEN Some([labels |-> Tail(labels), data |-> Tail(data)])
             ELSE Some([labels |-> labels, data |-> data])

(***************************************************************************)
(* Initial states.                                                         *)
(***************************************************************************)
\* an empty localStorage, no module has stored or read anything
StorageInit ==
    /\ storage = EmptyMap
    /\ owned = [m \in Paths |-> [k \in StorageKeys |-> Undefined]]
    /\ returned = [module |-> PathOrder[1], key |-> "settings",
                   value |-> Undefined]

\* no sample is being taken
SampleInit ==
    /\ provided = Rejected
    /\ snapshot = Pending

\* the file watcher page with an empty log, before any event
FileLogInit ==
    /\ eventsLog = Some(<<>>)
    /\ eventKinds = "mixed"
    /\ received = <<>>

\* the dashboard with its three charts, before any snapshot
DashboardInit ==
    /\ charts = [c \in ChartNames |-> Some(NewChart)]
    /\ series = "ramp"
    /\ updates = 0
    /\ pushed = [c \in ChartNames |-> <<>>]
    /\ FileLogInit
    /\ StorageInit
    /\ SampleInit

\* main process: the module has been evaluated, the app is not ready
MainInit ==
    /\ phase = "boot"
    /\ config = DefaultConfig
    /\ mainWindow = "null"
    /\ systemMonitorInterval = NoTimer
    /\ timers = {}
    /\ nextTick = 1
    /\ inflight = {}
    /\ sent = <<>>

\* plugin system: new PluginSystem(), before init() has run
PluginSystemInit ==
    /\ plugins = EmptyMap
    /\ pluginConfigs = EmptyMap
    /\ activePlugins = {}
    /\ navItems = [i \in TabIds |-> 0]
    /\ tabContents = [i \in TabIds |-> 0]
    /\ initTask = [pc |-> "configs", todo |-> <<>>]
    /\ tasks = {}
    /\ opCount = 0
    /\ notification = NoNotification

\* the sampler, with an empty plugin directory
Init ==
    /\ MainInit
    /\ darwin \in BOOLEAN
    /\ PluginSystemInit
    /\ DashboardInit
    /\ directory = "present"
    /\ files = [p \in Paths |-> SampleModule]
    /\ pluginConfigFile = Undefined

\* plugin files of every text, the first with a working module behind its
\* block, the second the sample plugin or an unreadable file; or no plugin
\* directory, as on the first run, where no file can be read
MetadataInit ==
    /\ MainInit
    /\ darwin = FALSE
    /\ PluginSystemInit
    /\ DashboardInit
    /\ \/ /\ directory = "present"
          /\ \E shape \in Shapes : \E second \in {Some(SampleText), Undefined} :
               files = [p \in Paths |->
                          IF p = PathOrder[1]
                          THEN [SampleModule EXCEPT !.text = Some(Text(shape))]
                          ELSE [SampleModule EXCEPT !.text = second]]
       \/ /\ directory = "absent"
          /\ files = [p \in Paths |-> [SampleModule EXCEPT !.text = Undefined]]
    /\ pluginConfigFile \in
         {Undefined, Some([p \in Paths |-> [enabled |-> TRUE]])}

\* the dashboard over every set of charts whose canvas exists and every
\* series of readings
ChartInit ==
    /\ MainInit
    /\ darwin = FALSE
    /\ PluginSystemInit
    /\ directory = "present"
    /\ files = [p \in Paths |-> SampleModule]
    /\ pluginConfigFile = Undefined
    /\ charts \in [ChartNames -> {Undefined, Some(NewChart)}]
    /\ series \in SeriesNames
    /\ updates = 0
    /\ pushed = [c \in ChartNames |-> <<>>]
    /\ FileLogInit
    /\ StorageInit
    /\ SampleInit

\* the file watcher page with or without its log, empty or holding an element
\* of the page, under every kind of change
FileEventInit ==
    /\ MainInit
    /\ darwin = FALSE
    /\ PluginSystemInit
    /\ directory = "present"
    /\ files = [p \in Paths |-> SampleModule]
    /\ pluginConfigFile = Undefined
    /\ charts = [c \in ChartNames |-> Some(NewChart)]
    /\ series = "ramp"
    /\ updates = 0
    /\ pushed = [c \in ChartNames |-> <<>>]
    /\ eventsLog \in {Undefined, Some(<<>>), Some(<<Placeholder>>)}
    /\ eventKinds \in EventKinds
    /\ received = <<>>
    /\ StorageInit
    /\ SampleInit

\* the plugin system, over every plugin directory and stored configuration
PluginInit ==
    /\ MainInit
    /\ darwin = FALSE
    /\ PluginSystemInit
    /\ DashboardInit
    /\ directory = "present"
    /\ files \in [Paths -> Modules]
    /\ pluginConfigFile \in StoredConfigs

(***************************************************************************)
(* Actions of the main process.                                            *)
(***************************************************************************)
\* app.whenReady().then(...): loadConfig, createWindow, startSystemMonitoring
WhenReady ==
    /\ phase = "boot"
    /\ \E doc \in ConfigDocs \cup {DefaultConfig} : \E readable \in BOOLEAN :
         LET cfg == IF readable THEN ObjectAssign(config, doc) ELSE config
         IN  /\ config' = cfg
             /\ IF MonitoringEnabled(cfg)
                THEN /\ timers' = StartedTimers(systemMonitorInterval, timers, cfg)
                     /\ systemMonitorInterval' =
                            StartedHandle(systemMonitorInterval, timers)
                ELSE UNCHANGED <<timers, systemMonitorInterval>>
    /\ mainWindow' = "open"
    /\ phase' = "running"
    /\ UNCHANGED <<darwin, nextTick, inflight, sent>>
    /\ UNCHANGED pvars
    /\ UNCHANGED cvars

\* ipcMain.handle('start-monitoring')
startSystemMonitoring ==
    /\ phase = "running"
    /\ mainWindow = "open"
    /\ timers' = StartedTimers(systemMonitorInterval, timers, config)
    /\ systemMonitorInterval' = StartedHandle(systemMonitorInterval, timers)
    /\ UNCHANGED <<phase, darwin, config, mainWindow, nextTick, inflight, sent>>
    /\ UNCHANGED pvars
    /\ UNCHANGED cvars

\* ipcMain.handle('stop-monitoring')
stopSystemMonitoring ==
    /\ phase = "running"
    /\ mainWindow = "open"
    /\ timers' = StoppedTimers(systemMonitorInterval, timers)
    /\ systemMonitorInterval' = StoppedHandle(systemMonitorInterval)
    /\ UNCHANGED <<phase, darwin, config, mainWindow, nextTick, inflight, sent>>
    /\ UNCHANGED pvars
    /\ UNCHANGED cvars

\* ipcMain.handle('save-config', newConfig)
SaveConfig ==
    /\ phase = "running"
    /\ mainWindow = "open"
    /\ \E newConfig \in ConfigDocs : config' = ObjectAssign(config, newConfig)
    /\ UNCHANGED <<phase, darwin, mainWindow, systemMonitorInterval, timers,
                   nextTick, inflight, sent>>
    /\ UNCHANGED pvars
    /\ UNCHANGED cvars

\* mainWindow.on('closed') and app.on('window-all-closed'): elsewhere than on
\* darwin the app quits, and 'before-quit' stops the monitoring
WindowClosed ==
    /\ phase = "running"
    /\ mainWindow = "open"
    /\ mainWindow' = "null"
    /\ IF darwin
       THEN UNCHANGED <<phase, systemMonitorInterval, timers>>
       ELSE /\ phase' = "quit"
            /\ timers' = StoppedTimers(systemMonitorInterval, timers)
            /\ systemMonitorInterval' = StoppedHandle(systemMonitorInterval)
    /\ UNCHANGED <<darwin, config, nextTick, inflight, sent>>
    /\ UNCHANGED pvars
    /\ UNCHANGED cvars

\* app.on('activate'): a window is created again
Activate ==
    /\ phase = "running"
    /\ darwin
    /\ mainWindow = "null"
    /\ mainWindow' = "open"
    /\ UNCHANGED <<phase, darwin, config, systemMonitorInterval, timers,
                   nextTick, inflight, sent>>
    /\ UNCHANGED pvars
    /\ UNCHANGED cvars

\* a periodic timer fires: the callback calls getSystemData, which issues the
\* four provider calls together and suspends on Promise.all
Tick ==
    /\ phase = "running"
    /\ timers # {}
    /\ nextTick <= MaxTicks
    /\ Cardinality(inflight) < MaxInflight
    /\ inflight' = inflight \cup
           {[tick |-> nextTick, q |-> [k \in Queries |-> "pending"]]}
    /\ nextTick' = nextTick + 1
    /\ UNCHANGED <<phase, darwin, config, mainWindow, systemMonitorInterval,
                   timers, sent>>
    /\ UNCHANGED pvars
    /\ UNCHANGED cvars

\* the timer callback without its try/catch: the exception of a send to a
\* closed window is uncaught and ends the process, and its timers with it
ProviderSettles_Uncaught ==
    /\ phase = "running"
    /\ \E s \in inflight : \E k \in Queries : \E outcome \in {"fulfilled", "rejected"} :
         /\ s.q[k] = "pending"
         /\ LET q == [s.q EXCEPT ![k] = outcome]
            IN  IF PromiseAll(q) = "pending"
                THEN /\ inflight' = (inflight \ {s}) \cup {[s EXCEPT !.q = q]}
                     /\ UNCHANGED <<sent, timers, systemMonitorInterval>>
                ELSE /\ inflight' = inflight \ {s}
                     /\ sent' = TickSend(sent, mainWindow, s.tick, getSystemData(q))
                     /\ IF mainWindow = "null"
                        THEN timers' = {} /\ systemMonitorInterval' = NoTimer
                        ELSE UNCHANGED <<timers, systemMonitorInterval>>
    /\ UNCHANGED <<phase, darwin, config, mainWindow, nextTick>>
    /\ UNCHANGED pvars
    /\ UNCHANGED cvars

\* a provider call of sample s settles; when that settles Promise.all,
\* getSystemData returns and the timer callback sends its result
ProviderSettles ==
    /\ phase = "running"
    /\ \E s \in inflight : \E k \in Queries : \E outcome \in {"fulfilled", "rejected"} :
         /\ s.q[k] = "pending"
         /\ LET q == [s.q EXCEPT ![k] = outcome]
            IN  IF PromiseAll(q) = "pending"
                THEN /\ inflight' = (inflight \ {s}) \cup {[s EXCEPT !.q = q]}
                     /\ sent' = sent
                ELSE /\ inflight' = inflight \ {s}
                     /\ sent' = TickSend(sent, mainWindow, s.tick, getSystemData(q))
    /\ UNCHANGED <<phase, darwin, config, mainWindow, systemMonitorInterval,
                   timers, nextTick>>
    /\ UNCHANGED pvars
    /\ UNCHANGED cvars

Next ==
    \/ WhenReady
    \/ startSystemMonitoring
    \/ stopSystemMonitoring
    \/ SaveConfig
    \/ WindowClosed
    \/ Activate
    \/ Tick
    \/ ProviderSettles

Spec == Init /\ [][Next]_vars

(***************************************************************************)
(* Actions of the plugin system.                                           *)
(*                                                                         *)
(* PluginSystem.init() runs before the plugin manager is rendered, so no   *)
(* user operation overlaps it.  A user operation runs up to its next await *)
(* of a host call (readFile, writeFile, readDirectory) or of the module's  *)
(* init and is then a task; the event loop resumes the tasks in any order. *)
(***************************************************************************)
\* window.electronAPI.readDirectory(this.pluginDirectory): the 'read-directory'
\* handler answers [] when fs.readdir fails, so the call never rejects
readDirectory(dir) == IF dir = "present" THEN PathOrder ELSE <<>>

RECURSIVE ScanAll(_, _)
\* scanPluginDirectory: loadPluginMetadata for each .js entry, in order
ScanAll(map, names) ==
    IF names = <<>> THEN map
    ELSE ScanAll(loadPluginMetadata(map, Head(names), files[Head(names)]),
                 Tail(names))

\* init(): await this.loadPluginConfigs()
loadPluginConfigs ==
    /\ initTask.pc = "configs"
    /\ pluginConfigs' = IF pluginConfigFile # Undefined
                        THEN CHOOSE m \in pluginConfigFile : TRUE
                        ELSE pluginConfigs
    /\ initTask' = [pc |-> "scan", todo |-> <<>>]
    /\ UNCHANGED <<directory, files, pluginConfigFile, plugins, activePlugins, navItems,
                   tabContents, tasks>>
    /\ UNCHANGED opCount
    /\ UNCHANGED notification
    /\ UNCHANGED svars
    /\ UNCHANGED cvars

\* init(): await this.scanPluginDirectory()
scanPluginDirectory ==
    /\ initTask.pc = "scan"
    /\ LET scanned == ScanAll(plugins, readDirectory(directory))
       IN  /\ plugins' = scanned
           /\ initTask' = [pc |-> "load",
                           todo |-> SelectSeq(PathOrder,
                                              LAMBDA q : q \in DOMAIN scanned)]
    /\ UNCHANGED <<directory, files, pluginConfigFile, pluginConfigs, activePlugins,
                   navItems, tabContents, tasks>>
    /\ UNCHANGED opCount
    /\ UNCHANGED notification
    /\ UNCHANGED svars
    /\ UNCHANGED cvars

\* loadActivePlugins over a loadPlugin that lets the exception of a module
\* escape: the loop ends at the first module that throws
loadActivePlugins_Uncaught ==
    /\ initTask.pc = "load"
    /\ initTask.todo # <<>>
    /\ LET path == Head(initTask.todo)
           src  == files[path]
           thrown == ConfigEnabled(pluginConfigs, path) /\ ~LoadsCleanly(src)
       IN  /\ IF ConfigEnabled(pluginConfigs, path)
              THEN /\ TabRoom(navItems, path, src)
                   /\ navItems' = IF HasInit(src)
                                  THEN createPluginTab(navItems, CreatedTabs(path, src))
                                  ELSE navItems
                   /\ tabContents' = IF HasInit(src)
                                     THEN createPluginTab(tabContents, CreatedTabs(path, src))
                                     ELSE tabContents
                   /\ activePlugins' = LoadedActive(activePlugins, path, src)
              ELSE UNCHANGED <<navItems, tabContents, activePlugins>>
           /\ initTask' = [initTask EXCEPT
                              !.todo = IF thrown THEN <<>> ELSE Tail(@)]
    /\ UNCHANGED <<directory, files, pluginConfigFile, plugins, pluginConfigs, tasks>>
    /\ UNCHANGED opCount
    /\ UNCHANGED notification
    /\ UNCHANGED svars
    /\ UNCHANGED cvars

\* init(): one iteration of loadActivePlugins, loadPlugin included
loadActivePlugins ==
    /\ initTask.pc = "load"
    /\ initTask.todo # <<>>
    /\ LET path == Head(initTask.todo)
           src  == files[path]
       IN  IF ConfigEnabled(pluginConfigs, path)
           THEN /\ TabRoom(navItems, path, src)
                /\ navItems' = IF HasInit(src)
                               THEN createPluginTab(navItems, CreatedTabs(path, src))
                               ELSE navItems
                /\ tabContents' = IF HasInit(src)
                                  THEN createPluginTab(tabContents, CreatedTabs(path, src))
                                  ELSE tabContents
                /\ activePlugins' = LoadedActive(activePlugins, path, src)
                \* `await pluginModule.init(...)` resumes only when the promise
                \* settles
                /\ initTask' = IF HasInit(src) /\ src.init = "hangs"
                               THEN [initTask EXCEPT !.pc = "init"]
                               ELSE [initTask EXCEPT !.todo = Tail(@)]
           ELSE /\ UNCHANGED <<navItems, tabContents, activePlugins>>
                /\ initTask' = [initTask EXCEPT !.todo = Tail(@)]
    /\ UNCHANGED <<directory, files, pluginConfigFile, plugins, pluginConfigs, tasks>>
    /\ UNCHANGED opCount
    /\ UNCHANGED notification
    /\ UNCHANGED svars
    /\ UNCHANGED cvars

\* init(): this.setupPluginManagement(): the manager is rendered
setupPluginManagement ==
    /\ initTask.pc = "load"
    /\ initTask.todo = <<>>
    /\ initTask' = [initTask EXCEPT !.pc = "ready"]
    /\ UNCHANGED <<directory, files, pluginConfigFile, plugins, pluginConfigs,
                   activePlugins, navItems, tabContents, tasks>>
    /\ UNCHANGED opCount
    /\ UNCHANGED notification
    /\ UNCHANGED svars
    /\ UNCHANGED cvars

\* togglePlugin(pluginPath, enabled), up to its first await of a host call
togglePlugin ==
    /\ initTask.pc = "ready"
    /\ opCount < MaxOps
    /\ opCount' = opCount + 1
    /\ FreeTaskIds # {}
    /\ \E path \in Paths : \E enabled \in BOOLEAN :
         LET cfgs == SetEnabled(pluginConfigs, path, enabled)
         IN  /\ pluginConfigs' = cfgs
             /\ IF enabled
                THEN /\ tasks' = tasks \cup
                         {IF path \in DOMAIN plugins
                          THEN NewTask("toggle", path, TRUE, "read", EmptyMap, <<>>)
                          ELSE NewTask("toggle", path, TRUE, "write", cfgs, <<>>)}
                     /\ UNCHANGED <<navItems, tabContents, activePlugins>>
                ELSE /\ navItems' = UnloadedDom(navItems, path)
                     /\ tabContents' = UnloadedDom(tabContents, path)
                     /\ activePlugins' = UnloadedActive(activePlugins, path)
                     /\ tasks' = tasks \cup
                         {NewTask("toggle", path, FALSE, "write", cfgs, <<>>)}
    /\ UNCHANGED <<directory, files, pluginConfigFile, plugins, initTask>>
    /\ UNCHANGED notification
    /\ UNCHANGED svars
    /\ UNCHANGED cvars

\* reloadPlugin(pluginPath), up to the readFile of its loadPlugin
reloadPlugin ==
    /\ initTask.pc = "ready"
    /\ opCount < MaxOps
    /\ opCount' = opCount + 1
    /\ FreeTaskIds # {}
    /\ \E path \in Paths :
         /\ navItems' = UnloadedDom(navItems, path)
         /\ tabContents' = UnloadedDom(tabContents, path)
         /\ activePlugins' = UnloadedActive(activePlugins, path)
         /\ LET t == NewTask("reload", path, TRUE, "read", EmptyMap, <<>>)
            IN  IF path \in DOMAIN plugins
                THEN /\ tasks' = tasks \cup {t}
                     /\ UNCHANGED notification
                ELSE /\ tasks' = tasks
                     /\ notification' = Notified(t)
    /\ UNCHANGED <<directory, files, pluginConfigFile, plugins, pluginConfigs, initTask>>
    /\ UNCHANGED svars
    /\ UNCHANGED cvars

\* deletePlugin(pluginPath), confirmed, up to the write of savePluginConfigs
deletePlugin ==
    /\ initTask.pc = "ready"
    /\ opCount < MaxOps
    /\ opCount' = opCount + 1
    /\ FreeTaskIds # {}
    /\ \E path \in Paths :
         LET cfgs == MapDelete(pluginConfigs, path)
         IN  /\ navItems' = UnloadedDom(navItems, path)
             /\ tabContents' = UnloadedDom(tabContents, path)
             /\ activePlugins' = UnloadedActive(activePlugins, path)
             /\ plugins' = MapDelete(plugins, path)
             /\ pluginConfigs' = cfgs
             /\ tasks' = tasks \cup
                    {NewTask("delete", path, FALSE, "write", cfgs, <<>>)}
    /\ UNCHANGED <<directory, files, pluginConfigFile, initTask>>
    /\ UNCHANGED notification
    /\ UNCHANGED svars
    /\ UNCHANGED cvars

\* refreshPlugins(), up to the readDirectory of scanPluginDirectory
refreshPlugins ==
    /\ initTask.pc = "ready"
    /\ opCount < MaxOps
    /\ opCount' = opCount + 1
    /\ FreeTaskIds # {}
    /\ tasks' = tasks \cup
           {NewTask("refresh", PathOrder[1], FALSE, "dir", EmptyMap, <<>>)}
    /\ UNCHANGED <<directory, files, pluginConfigFile, plugins, pluginConfigs,
                   activePlugins, navItems, tabContents, initTask>>
    /\ UNCHANGED notification
    /\ UNCHANGED svars
    /\ UNCHANGED cvars

\* scanPluginDirectory of a refresh: readDirectory has answered
RefreshDir ==
    /\ \E t \in tasks :
         /\ t.pc = "dir"
         /\ LET names == readDirectory(directory)
            IN  IF names = <<>>
                THEN /\ tasks' = tasks \ {t}
                     /\ notification' = Notified(t)
                ELSE /\ tasks' = (tasks \ {t}) \cup
                            {[t EXCEPT !.pc = "meta", !.todo = names]}
                     /\ UNCHANGED notification
    /\ UNCHANGED <<directory, files, pluginConfigFile, plugins, pluginConfigs,
                   activePlugins, navItems, tabContents, initTask>>
    /\ UNCHANGED opCount
    /\ UNCHANGED svars
    /\ UNCHANGED cvars

\* loadPluginMetadata of a refresh: readFile has answered
RefreshMeta ==
    /\ \E t \in tasks :
         /\ t.pc = "meta"
         /\ plugins' = loadPluginMetadata(plugins, Head(t.todo), files[Head(t.todo)])
         /\ tasks' = (tasks \ {t}) \cup
                (IF Tail(t.todo) = <<>> THEN {}
                 ELSE {[t EXCEPT !.todo = Tail(@)]})
         /\ notification' = IF Tail(t.todo) = <<>> THEN Notified(t)
                            ELSE notification
    /\ UNCHANGED <<directory, files, pluginConfigFile, pluginConfigs, activePlugins,
                   navItems, tabContents, initTask>>
    /\ UNCHANGED opCount
    /\ UNCHANGED svars
    /\ UNCHANGED cvars

\* loadPlugin: readFile has answered; createPluginModule runs the top-level
\* code and, when the module exports init, init is called and awaited
ReadSettles ==
    /\ \E t \in tasks :
         /\ t.pc = "read"
         /\ LET src == files[t.path]
            IN  IF HasInit(src)
                THEN /\ TabRoom(navItems, t.path, src)
                     /\ navItems' = createPluginTab(navItems, CreatedTabs(t.path, src))
                     /\ tabContents' =
                            createPluginTab(tabContents, CreatedTabs(t.path, src))
                     /\ tasks' = (tasks \ {t}) \cup {[t EXCEPT !.pc = "init"]}
                     /\ UNCHANGED notification
                ELSE /\ tasks' = (tasks \ {t}) \cup AfterLoad(t, pluginConfigs)
                     /\ notification' = AfterLoadNotified(t, notification)
                     /\ UNCHANGED <<navItems, tabContents>>
    /\ UNCHANGED <<directory, files, pluginConfigFile, plugins, pluginConfigs,
                   activePlugins, initTask>>
    /\ UNCHANGED opCount
    /\ UNCHANGED svars
    /\ UNCHANGED cvars

\* loadPlugin: the promise of init has settled
InitSettles ==
    /\ \E t \in tasks :
         /\ t.pc = "init"
         /\ activePlugins' = LoadedActive(activePlugins, t.path, files[t.path])
         /\ tasks' = (tasks \ {t}) \cup AfterLoad(t, pluginConfigs)
         /\ notification' = AfterLoadNotified(t, notification)
    /\ UNCHANGED <<directory, files, pluginConfigFile, plugins, pluginConfigs, navItems,
                   tabContents, initTask>>
    /\ UNCHANGED opCount
    /\ UNCHANGED svars
    /\ UNCHANGED cvars

\* savePluginConfigs: writeFile has answered
WriteSettles ==
    /\ \E t \in tasks : \E written \in BOOLEAN :
         /\ t.pc = "write"
         /\ pluginConfigFile' = IF written THEN Some(t.payload) ELSE pluginConfigFile
         /\ tasks' = tasks \ {t}
         /\ notification' = Notified(t)
    /\ UNCHANGED <<directory, files, plugins, pluginConfigs, activePlugins, navItems,
                   tabContents, initTask>>
    /\ UNCHANGED opCount
    /\ UNCHANGED svars
    /\ UNCHANGED cvars

PluginNext ==
    \/ loadPluginConfigs
    \/ scanPluginDirectory
    \/ loadActivePlugins
    \/ setupPluginManagement
    \/ togglePlugin
    \/ reloadPlugin
    \/ deletePlugin
    \/ refreshPlugins
    \/ RefreshDir
    \/ RefreshMeta
    \/ ReadSettles
    \/ InitSettles
    \/ WriteSettles

PluginSpec == PluginInit /\ [][PluginNext]_vars

\* startup alone, over plugin directories that may hold a module whose init
\* never settles
StartupInit ==
    /\ MainInit
    /\ darwin = FALSE
    /\ PluginSystemInit
    /\ DashboardInit
    /\ directory = "present"
    /\ files \in [Paths -> Modules \cup {InitHangsModule}]
    /\ pluginConfigFile \in StoredConfigs

StartupNext ==
    \/ loadPluginConfigs
    \/ scanPluginDirectory
    \/ loadActivePlugins
    \/ setupPluginManagement

\* each step of init() is the continuation of an await: the event loop runs
\* it once the host call or the promise awaited has settled
StartupSpec ==
    /\ StartupInit
    /\ [][StartupNext]_vars
    /\ WF_vars(loadPluginConfigs)
    /\ WF_vars(scanPluginDirectory)
    /\ WF_vars(loadActivePlugins)
    /\ WF_vars(setupPluginManagement)

\* startup and refreshes: the operations that read metadata
MetadataNext ==
    \/ loadPluginConfigs
    \/ scanPluginDirectory
    \/ loadActivePlugins
    \/ setupPluginManagement
    \/ refreshPlugins
    \/ RefreshDir
    \/ RefreshMeta

MetadataSpec == MetadataInit /\ [][MetadataNext]_vars

(***************************************************************************)
(* Actions of the dashboard.                                               *)
(***************************************************************************)
\* updateDashboard(data) with a whole snapshot: updateChart of the cpu, the
\* memory and the network chart
updateDashboard ==
    /\ updates < MaxUpdates
    /\ updates' = updates + 1
    /\ LET value == Reading(series, updates + 1)
       IN  /\ charts' = [c \in ChartNames |->
                           updateChart(charts[c], updates + 1, value)]
           /\ pushed' = [c \in ChartNames |->
                           IF charts[c] = Undefined THEN pushed[c]
                           ELSE Append(pushed[c], value)]
    /\ UNCHANGED series
    /\ UNCHANGED <<logVars, storeVars, sampleVars>>
    /\ UNCHANGED <<svars, pvars>>

ChartNext == updateDashboard

ChartSpec == ChartInit /\ [][ChartNext]_vars

(***************************************************************************)
(* Actions of the file watcher page.                                       *)
(***************************************************************************)
\* the 'file-event' listener: this.handleFileEvent(event)
FileEventArrives ==
    /\ Len(received) < MaxEvents
    /\ LET event == FileEvent(eventKinds, Len(received) + 1)
       IN  /\ eventsLog' = handleFileEvent(eventsLog, event)
           /\ received' = Append(received, event)
    /\ UNCHANGED eventKinds
    /\ UNCHANGED <<chartVars, storeVars, sampleVars>>
    /\ UNCHANGED <<svars, pvars>>

FileEventNext == FileEventArrives

FileEventSpec == FileEventInit /\ [][FileEventNext]_vars

(***************************************************************************)
(* Actions of the modules on the plugin storage.  Every module is given the *)
(* same api object, whose getStorage and setStorage take the key only.     *)
(***************************************************************************)
\* the code of a module calls api.setStorage(key, value)
setStorage ==
    \E module \in Paths : \E key \in StorageKeys : \E value \in StorageValues :
        /\ storage' = setPluginStorage(storage, key, value)
        /\ owned' = [owned EXCEPT ![module][key] = Some(value)]
        /\ UNCHANGED returned
        /\ UNCHANGED <<chartVars, logVars, sampleVars>>
        /\ UNCHANGED <<svars, pvars>>

\* the code of a module calls api.getStorage(key)
getStorage ==
    \E module \in Paths : \E key \in StorageKeys :
        /\ returned' = [module |-> module, key |-> key,
                        value |-> getPluginStorage(storage, key)]
        /\ UNCHANGED <<storage, owned>>
        /\ UNCHANGED <<chartVars, logVars, sampleVars>>
        /\ UNCHANGED <<svars, pvars>>

StorageNext == setStorage \/ getStorage

\* the page with the sample plugin in both files
StorageSpecInit ==
    /\ MainInit
    /\ darwin = FALSE
    /\ PluginSystemInit
    /\ DashboardInit
    /\ directory = "present"
    /\ files = [p \in Paths |-> SampleModule]
    /\ pluginConfigFile = Undefined

StorageSpec == StorageSpecInit /\ [][StorageNext]_vars

(***************************************************************************)
(* One sample by value.                                                    *)
(***************************************************************************)
\* getSystemData(): the provider calls answer and the snapshot is built, or
\* one of them fails and the catch returns null
sampleOnce ==
    /\ snapshot = Pending
    /\ IF provided = Rejected
       THEN snapshot' = Null
       ELSE \E now \in Clock :
                snapshot' = SystemData(provided.cpu, provided.mem,
                                       provided.disk, provided.network, now)
    /\ UNCHANGED provided
    /\ UNCHANGED <<chartVars, logVars, storeVars>>
    /\ UNCHANGED <<svars, pvars>>

SampleNext == sampleOnce

\* a call of getSystemData whose provider calls answer with every result, or
\* fail
SampleSpecInit ==
    /\ MainInit
    /\ darwin = FALSE
    /\ PluginSystemInit
    /\ directory = "present"
    /\ files = [p \in Paths |-> SampleModule]
    /\ pluginConfigFile = Undefined
    /\ charts = [c \in ChartNames |-> Some(NewChart)]
    /\ series = "ramp"
    /\ updates = 0
    /\ pushed = [c \in ChartNames |-> <<>>]
    /\ FileLogInit
    /\ StorageInit
    /\ provided \in ProviderResults \cup {Rejected}
    /\ snapshot = Pending

SampleSpec == SampleSpecInit /\ [][SampleNext]_vars

(***************************************************************************)
(* Properties of the sampler.                                              *)
(***************************************************************************)
SnapshotFields == {"cpu", "memory", "disk", "network"}

IsSnapshot(d) == d # Null

\* a step in which startSystemMonitoring installed a timer
StartStep ==
    /\ systemMonitorInterval' # NoTimer
    /\ systemMonitorInterval' # systemMonitorInterval

\* a step that ends a tick without a snapshot: the sample failed, or the send
\* to a closed window threw
FailedTickStep ==
    \/ /\ Len(sent') = Len(sent) + 1
       /\ ~IsSnapshot(sent'[Len(sent')].data)
    \/ /\ Cardinality(inflight') < Cardinality(inflight)
       /\ sent' = sent

\* C1: after any sequence of start and stop calls at most one periodic timer
\* is active, a start leaves exactly one timer (the one whose handle is
\* stored), and no tick delivers more than one message.
C1_AtMostOneTimer ==
    /\ [](/\ Cardinality(timers) <= 1
          /\ \A i, j \in 1..Len(sent) : sent[i].tick = sent[j].tick => i = j)
    /\ [][StartStep => /\ Cardinality(timers') = 1
                       /\ TimerIds(timers') = {systemMonitorInterval'}]_vars

\* C1 witness: start was called while a timer was running (the second handle
\* is stored), one timer is active and a tick has delivered.
C1_Witness ==
    /\ systemMonitorInterval = 2
    /\ Cardinality(timers) = 1
    /\ Len(sent) >= 1

\* C2: on a tick whose sample fails, nothing is sent to the sink: no message
\* on 'system-data-update' carries an empty value in place of a snapshot.
C2_FailedTickSendsNothing ==
    \A i \in 1..Len(sent) : IsSnapshot(sent[i].data)

\* C3: whatever the outcome of the four sub-queries, getSystemData yields
\* either a snapshot with cpu, memory, disk and network all populated from
\* fulfilled sub-queries, or the failure value with no snapshot field; this
\* holds of every message sent and of every way an in-flight sample can settle.
C3_Whole(d) ==
    \/ d = Null
    \/ /\ SnapshotFields \subseteq DOMAIN d
       /\ "isNull" \notin DOMAIN d
       /\ d.cpu = [load |-> "fulfilled"]
       /\ d.memory = [total |-> "fulfilled"]
       /\ d.disk = [fs |-> "fulfilled"]
       /\ d.network = [rx_sec |-> "fulfilled"]

C3_SnapshotWholeOrNull ==
    /\ \A i \in 1..Len(sent) : C3_Whole(sent[i].data)
    /\ \A s \in inflight : \A k \in Queries : \A o \in {"fulfilled", "rejected"} :
         LET q == [s.q EXCEPT ![k] = o]
         IN  /\ C3_Whole(getSystemData(q))
             /\ IsSnapshot(getSystemData(q)) <=>
                    (\A x \in Queries : q[x] = "fulfilled")

\* C3 witness: a failed sample and a complete snapshot have both been sent.
C3_Witness ==
    /\ \E i \in 1..Len(sent) : sent[i].data = Null
    /\ \E i \in 1..Len(sent) :
         IsSnapshot(sent[i].data) /\ SnapshotFields \subseteq DOMAIN sent[i].data

\* C4: a tick that fails (its sample fails, or its send throws because the
\* window is gone) leaves the periodic timer and its handle as they were, and
\* while a timer is active a further tick can start a fresh sample.
C4_FailedTickKeepsLoop ==
    /\ [][FailedTickStep => /\ timers' = timers
                            /\ systemMonitorInterval' = systemMonitorInterval]_vars
    /\ []((/\ timers # {}
           /\ phase = "running"
           /\ nextTick <= MaxTicks
           /\ Cardinality(inflight) < MaxInflight) => ENABLED Tick)

\* C4 witness: a tick whose sample failed sent the failure value, a later tick
\* took a fresh sample and lost it to a send that threw on the closed window,
\* and the timer is still active.
C4_Witness ==
    /\ timers # {}
    /\ phase = "running"
    /\ mainWindow = "null"
    /\ inflight = {}
    /\ nextTick = 3
    /\ Len(sent) = 1
    /\ sent[1].tick = 1
    /\ ~IsSnapshot(sent[1].data)

\* C5: stop cancels the timer and releases the handle: whenever no handle is
\* stored no timer is active, a tick begins only while a timer is active, and
\* a stop with no handle stored leaves the timers as they are.
C5_StopReleasesTimer ==
    /\ [](systemMonitorInterval = NoTimer => timers = {})
    /\ [][nextTick' # nextTick => timers # {}]_vars
    /\ [][(systemMonitorInterval = NoTimer /\ systemMonitorInterval' = NoTimer)
            => timers' = timers]_vars

\* C5 witness: a timer ran (a tick began, its sample is still in flight) and
\* was stopped while the app keeps running.
C5_Witness ==
    /\ phase = "running"
    /\ systemMonitorInterval = NoTimer
    /\ timers = {}
    /\ nextTick > 1
    /\ inflight # {}

\* C6: snapshots reach the sink in tick order: no snapshot of an earlier tick
\* is sent after the snapshot of a later tick.
C6_DeliveredInTickOrder ==
    \A i, j \in 1..Len(sent) :
        (i < j /\ IsSnapshot(sent[i].data) /\ IsSnapshot(sent[j].data))
            => sent[i].tick < sent[j].tick

\* the default interval and those a configuration document supplies
ConfiguredIntervals ==
    {Some(DefaultInterval)} \cup
    {MonitoringInterval(doc) :
        doc \in {d \in ConfigDocs : /\ "monitoring" \in DOMAIN d
                                    /\ "interval" \in DOMAIN d.monitoring}}

\* C7: the period of every timer started is the configured interval, a
\* positive number, and it is the default unless a configuration document
\* supplied another one: the config never lacks its interval.
C7_PeriodIsConfiguredInterval ==
    /\ MonitoringInterval(config) \in ConfiguredIntervals
    /\ \A t \in timers :
         /\ t.delay \in ConfiguredIntervals
         /\ \A v \in t.delay : v > 0

\* the monitoring is stopped and the app runs
Stopped == phase = "running" /\ systemMonitorInterval = NoTimer

\* a step in which stopSystemMonitoring clears the running timer
StopStep ==
    /\ systemMonitorInterval # NoTimer
    /\ systemMonitorInterval' = NoTimer
    /\ phase' = "running"

\* a step in which the sample s in flight ends
SampleEnds(s) ==
    s \in inflight /\ \A r \in inflight' : r.tick # s.tick

UnloadStep(path) ==
    path \in activePlugins /\ path \notin activePlugins'

\* a step in which task t ends its loadPlugin: it was awaiting readFile or
\* init and no longer is
LoadEnds(t) ==
    /\ t \in tasks
    /\ t.pc \in {"read", "init"}
    /\ \A u \in tasks' : u.id = t.id => u.pc \notin {"read", "init"}
    /\ t.pc = "read" => ~HasInit(files[t.path])

\* a step in which loadActivePlugins ends the loadPlugin of path
StartupLoadEnds(path) ==
    /\ initTask.pc = "load"
    /\ initTask.todo # <<>>
    /\ Head(initTask.todo) = path
    /\ initTask'.todo = Tail(initTask.todo)
    /\ ConfigEnabled(pluginConfigs, path)

\* C8: every module of the active set has registered metadata and a config
\* entry with enabled = true.
C8_ActiveImpliesEnabled ==
    \A path \in activePlugins :
        /\ path \in DOMAIN plugins
        /\ path \in DOMAIN pluginConfigs
        /\ pluginConfigs[path].enabled

\* C9: when a module is unloaded, every tab it created through createTab is
\* gone from the sidebar and from the tab contents, whatever id it chose, and
\* the module is out of the active set.
C9_UnloadRemovesSurfaces ==
    [][\A path \in Paths :
          UnloadStep(path) =>
              \A i \in CreatedTabs(path, files[path]) :
                  navItems'[i] = 0 /\ tabContents'[i] = 0]_vars

\* C10: a loadPlugin in which reading the source, running its top-level code
\* and awaiting its init (if it has one) raise no exception leaves the module
\* in the active set, also when the module exports no init.
C10_CleanLoadActivates ==
    [][/\ \A t \in tasks :
            (LoadEnds(t) /\ LoadsCleanly(files[t.path]))
                => t.path \in activePlugins'
       /\ \A path \in Paths :
            (StartupLoadEnds(path) /\ LoadsCleanly(files[path]))
                => path \in activePlugins']_vars

\* the state a failed load leaves the module at path in: registered, enabled,
\* not active
LoadFailed(path) ==
    /\ path \in DOMAIN plugins
    /\ ConfigEnabled(pluginConfigs, path)
    /\ path \notin activePlugins

\* a reloadPlugin(path) that reaches the readFile of its loadPlugin
ReloadAttempts(path) ==
    /\ reloadPlugin
    /\ \E t \in tasks' \ tasks :
         t.op = "reload" /\ t.path = path /\ t.pc = "read"

\* C11: when the loadPlugin of an enabled module raises an exception (in its
\* top-level code or in its init), the module is not in the active set
\* afterwards and its config entry still has enabled = true; and in that
\* state a reloadPlugin(path) attempts the load again.
C11_FailedLoadStaysEnabled ==
    /\ [][/\ \A t \in tasks :
              (/\ LoadEnds(t)
               /\ ~LoadsCleanly(files[t.path])
               /\ ConfigEnabled(pluginConfigs, t.path))
                  => /\ t.path \notin activePlugins'
                     /\ ConfigEnabled(pluginConfigs', t.path)
          /\ \A path \in Paths :
              (StartupLoadEnds(path) /\ ~LoadsCleanly(files[path]))
                  => /\ path \notin activePlugins'
                     /\ ConfigEnabled(pluginConfigs', path)]_vars
    /\ [](\A path \in Paths :
            (/\ LoadFailed(path)
             /\ ~LoadsCleanly(files[path])
             /\ initTask.pc = "ready"
             /\ opCount < MaxOps
             /\ FreeTaskIds # {})
                => ENABLED ReloadAttempts(path))

\* a module whose load raised at startup is enabled and not active, and a
\* reloadPlugin of it is reading its source again
C11_Witness ==
    \E t \in tasks :
        /\ t.op = "reload"
        /\ t.pc = "read"
        /\ ~LoadsCleanly(files[t.path])
        /\ LoadFailed(t.path)

\* a step of the loadPlugin that task t is in
LoadStep(t) ==
    /\ t \in tasks
    /\ t.pc \in {"read", "init"}
    /\ t \notin tasks'

\* the step leaves the metadata, the config entry and the active-set
\* membership of the module at path as they were
Untouched(path) ==
    /\ (path \in DOMAIN plugins') = (path \in DOMAIN plugins)
    /\ path \in DOMAIN plugins => plugins'[path] = plugins[path]
    /\ (path \in DOMAIN pluginConfigs') = (path \in DOMAIN pluginConfigs)
    /\ path \in DOMAIN pluginConfigs => pluginConfigs'[path] = pluginConfigs[path]
    /\ (path \in activePlugins') = (path \in activePlugins)

\* loadActivePlugins would load the module at path and its init succeeds
StartupLoads(path) ==
    /\ path \in DOMAIN plugins
    /\ ConfigEnabled(pluginConfigs, path)
    /\ HasInit(files[path])
    /\ files[path].init = "ok"

\* C12: loading one module never affects the others: no step of a loadPlugin
\* of a module A that raises an exception, at startup or after a toggle,
\* changes the metadata, the config entry or the active-set membership of
\* another module B, and when startup has ended every other enabled module
\* (with a working init) is loaded.
C12_FailureIsIsolated ==
    /\ [][/\ \A t \in tasks :
              (LoadStep(t) /\ ~LoadsCleanly(files[t.path]))
                  => \A b \in Paths \ {t.path} : Untouched(b)
          /\ \A a \in Paths :
              (StartupLoadEnds(a) /\ ~LoadsCleanly(files[a]))
                  => \A b \in Paths \ {a} : Untouched(b)]_vars
    /\ []((initTask.pc = "ready" /\ opCount = 0)
            => \A b \in Paths : StartupLoads(b) => b \in activePlugins)

\* startup has ended: the first module raised in its load and is not active,
\* the second one, loaded after it, is
C12_Witness ==
    /\ initTask.pc = "ready"
    /\ opCount = 0
    /\ ~LoadsCleanly(files[PathOrder[1]])
    /\ LoadFailed(PathOrder[1])
    /\ StartupLoads(PathOrder[2])
    /\ PathOrder[2] \in activePlugins

\* a step in which the operation of task t ends
OpEnds(t) ==
    /\ t \in tasks
    /\ \A u \in tasks' : u.id # t.id

\* C13: when a togglePlugin(path, true) or a reloadPlugin(path) issued by the
\* operator ends with the module failing to load, the notification shown is
\* an error notification.
C13_FailedLoadNotifiesError ==
    [][\A t \in tasks :
          (/\ OpEnds(t)
           /\ t.op \in {"toggle", "reload"}
           /\ t.enabled
           /\ t.path \in DOMAIN plugins
           /\ ~LoadsCleanly(files[t.path])
           /\ t.path \notin activePlugins')
              => notification'.type = "error"]_vars

\* no element of a tab of the module at path is in the page
SurfacesGone(path) ==
    \A i \in CreatedTabs(path, files[path]) \cup {path} :
        navItems[i] = 0 /\ tabContents[i] = 0

\* plugin-config.json has an entry for path
Persisted(path) ==
    \E doc \in pluginConfigFile : path \in DOMAIN doc

\* C14: deletePlugin(path) unloads before it erases: in no state of a delete
\* in progress is the module active, or a tab of it in the page, while its
\* metadata or config entry is already erased; and when the delete ends the
\* path is in none of the metadata map, the config map, the active set and
\* plugin-config.json.
C14_DeleteUnloadsThenErases ==
    /\ [](\A t \in tasks :
            (/\ t.op = "delete"
             /\ (t.path \notin DOMAIN plugins \/ t.path \notin DOMAIN pluginConfigs))
                => t.path \notin activePlugins /\ SurfacesGone(t.path))
    /\ [][\A t \in tasks :
            (OpEnds(t) /\ t.op = "delete")
                => /\ t.path \notin DOMAIN plugins'
                   /\ t.path \notin DOMAIN pluginConfigs'
                   /\ t.path \notin activePlugins'
                   /\ ~Persisted(t.path)']_vars

\* plugin-config.json records the enabled state that task t set
PersistedAs(t) ==
    \E doc \in pluginConfigFile :
        t.path \in DOMAIN doc /\ doc[t.path].enabled = t.enabled

\* C15: togglePlugin(path, enabled) has written the new enabled state to
\* plugin-config.json before the load or the unload of the module starts:
\* while its loadPlugin is in progress, and in the step of its unloadPlugin,
\* the document already records the new state.
C15_PersistedBeforeLoad ==
    /\ [](\A t \in tasks :
            (t.op = "toggle" /\ t.pc \in {"read", "init"}) => PersistedAs(t))
    /\ [][\A t \in tasks' \ tasks :
            (t.op = "toggle" /\ ~t.enabled) => PersistedAs(t)]_vars

\* task t is a reloadPlugin between its unload and the end of its load
Reloading(t) ==
    /\ t \in tasks
    /\ t.op = "reload"
    /\ t.pc \in {"read", "init"}

\* C16: reloadPlugin(path) exposes no intermediate state: between its unload
\* and the end of its load, while the module is out of the active set, no
\* step other than the next step of that reload is taken.
C16_ReloadIsAtomic ==
    [][\A t \in tasks :
          (Reloading(t) /\ t.path \notin activePlugins) => LoadStep(t)]_vars

\* a step that ends the load of a togglePlugin(path, true) that followed an
\* unload (kind = "toggle"), or the load of a reloadPlugin (kind = "reload")
ReactivationEnds(t, kind) ==
    /\ LoadEnds(t)
    /\ t.op = kind
    /\ t.enabled
    /\ t.path \notin activePlugins

\* C17: for a module whose load raises no exception, toggling it off and on
\* again ends with the same active-set membership as reloadPlugin(path): in
\* both cases the module is in the active set when the load has ended.
C17_ToggleOffOnLikeReload ==
    [][\A t \in tasks : \A kind \in {"toggle", "reload"} :
          (ReactivationEnds(t, kind) /\ LoadsCleanly(files[t.path]))
              => t.path \in activePlugins']_vars

(***************************************************************************)
(* Properties of the metadata extraction.                                  *)
(***************************************************************************)
\* the shapes whose comment is a complete @plugin block around members only
WellFormedShapes ==
    [pre : Pres, open : {BlockOpen},
     payload : {payload \in Payloads :
                   \A k \in 1..Len(payload) : payload[k].kind = "field"},
     close : {BlockClose}, post : Pres]
WellFormed(shape) == shape \in WellFormedShapes

\* the well-formed shapes a text can be read as
Readings(content) ==
    {shape \in WellFormedShapes : content = Some(Text(shape))}

\* the fields of a payload: key -> value, a repeated key keeping its last
\* value
PayloadFields(payload) ==
    [key \in {payload[k].key : k \in 1..Len(payload)} |->
        LET at == {k \in 1..Len(payload) : payload[k].key = key}
        IN  payload[CHOOSE k \in at : \A l \in at : l <= k].value]

\* the directory has been scanned
Scanned == initTask.pc \in {"load", "ready"}

\* a step in which a refresh ends its loadPluginMetadata of path
RefreshReads(path) ==
    \E t \in tasks : t.pc = "meta" /\ Head(t.todo) = path /\ t \notin tasks'

\* C18: a file with a well-formed @plugin block is registered with exactly the
\* fields of its payload; a file without a block, with a malformed payload or
\* that cannot be read is not registered and not loaded, and reading it
\* leaves the metadata map unchanged.
C18_ExtractionIsTotal ==
    /\ []((Scanned /\ directory = "present") =>
            \A path \in Paths :
                /\ \A shape \in Readings(files[path].text) :
                      /\ path \in DOMAIN plugins
                      /\ plugins[path] = PayloadFields(shape.payload)
                /\ Readings(files[path].text) = {}
                      => path \notin DOMAIN plugins /\ path \notin activePlugins)
    /\ [][\A path \in Paths :
            (RefreshReads(path) /\ Readings(files[path].text) = {})
                => plugins' = plugins]_vars

\* after a refresh: the first file, with a block around a malformed payload,
\* and the second, unreadable, are not registered
C18_Witness ==
    /\ initTask.pc = "ready"
    /\ opCount > 0
    /\ tasks = {}
    /\ files[PathOrder[2]].text = Undefined
    /\ \E shape \in Shapes :
         /\ shape.open = BlockOpen
         /\ shape.close = BlockClose
         /\ ~WellFormed(shape)
         /\ files[PathOrder[1]].text = Some(Text(shape))
    /\ plugins = EmptyMap

\* the fields the plugin guide requires of a block
RequiredFields == {"name", "version", "author", "description"}

\* C19: a module is registered only if its block has the four required fields
\* name, version, author and description; a block that parses but lacks one
\* of them is rejected and never loaded.
C19_RequiredFieldsEnforced ==
    \A path \in Paths :
        /\ path \in DOMAIN plugins => RequiredFields \subseteq DOMAIN plugins[path]
        /\ path \in activePlugins =>
              \A shape \in Readings(files[path].text) :
                  RequiredFields \subseteq DOMAIN PayloadFields(shape.payload)

\* C23: when the plugin directory does not exist at startup, discovery
\* creates it and writes the bundled samples into it, and the first run
\* terminates: once init() has ended the directory exists.
C23_FirstRunCreatesDirectory ==
    initTask.pc = "ready" => directory = "present"

(***************************************************************************)
(* Properties of the dashboard.                                            *)
(***************************************************************************)
\* the last n elements of a sequence
LastN(seq, n) == SubSeq(seq, Len(seq) - n + 1, Len(seq))

\* C20: after N values have been given to updateChart, the chart holds
\* min(N, 20) values, the last min(N, 20) given, in the order given, and its
\* labels and its data have the same length.
C20_WindowIsLastTwenty ==
    \A c \in ChartNames : \A chart \in charts[c] :
        LET n == Len(pushed[c])
            kept == IF n < WindowSize THEN n ELSE WindowSize
        IN  /\ Len(chart.data) = kept
            /\ chart.data = LastN(pushed[c], kept)
            /\ Len(chart.labels) = Len(chart.data)

\* a chart that has been given more than 20 rising values
C20_Witness ==
    /\ series = "ramp"
    /\ \E c \in ChartNames : \E chart \in charts[c] :
         /\ Len(pushed[c]) > WindowSize
         /\ Len(chart.data) = WindowSize

(***************************************************************************)
(* Properties of the file watcher page.                                    *)
(***************************************************************************)
\* C21: after any number of file events the log holds at most 100 entries,
\* and its events are exactly the most recently received ones, newest first:
\* on overflow the oldest entry is the one evicted.
C21_LogIsLastHundred ==
    \A log \in eventsLog :
        LET entries == SelectSeq(log, LAMBDA e : e # Placeholder)
            n == Len(received)
            kept == IF n < LogSize THEN n ELSE LogSize
        IN  /\ Len(log) <= LogSize
            /\ Len(entries) = kept
            /\ \A i \in 1..kept : entries[i] = received[n - i + 1]

\* more than 100 events of changing types have been received and the log is
\* full
C21_Witness ==
    /\ eventKinds = "mixed"
    /\ Len(received) > LogSize
    /\ \E log \in eventsLog : Len(log) = LogSize

(***************************************************************************)
(* Properties of the plugin storage.                                       *)
(***************************************************************************)
\* C22: storage is scoped to the module: what api.getStorage(key) returns to
\* a module is the value that module stored under the key last, or nothing
\* if it stored none; never a value of another module, and unchanged by the
\* writes of another module under the same key.
C22_StorageIsScoped ==
    [][returned' # returned =>
          returned'.value = owned[returned'.module][returned'.key]]_vars


----------------------------------------------------------------------------
\* Delete and rescan

\* deletePlugin(path) has completed: startup had registered path, its entry
\* is gone and the save of the delete has been answered
DeleteCompleted(path) ==
    /\ initTask.pc = "ready"
    /\ path \notin DOMAIN plugins
    /\ \A t \in tasks : t.op # "delete"

\* C24: delete removes a plugin permanently: once deletePlugin(path) has
\* completed, no step of a refresh of the plugin directory registers path
\* again.
C24_DeleteIsPermanent ==
    [][\A path \in Paths :
          DeleteCompleted(path) => path \notin DOMAIN plugins']_vars



----------------------------------------------------------------------------
\* One sample by value

\* the parts of a snapshot other than the memory percentage: the cpu load is
\* the provider's, the disks keep the provider's order and use figures, the
\* network rates are those of the first interface, 0 when there is none
SnapshotCopiesProviders ==
    /\ snapshot.cpu.load = provided.cpu.currentLoad
    /\ Len(snapshot.disk) = Len(provided.disk)
    /\ \A i \in 1..Len(provided.disk) :
         /\ snapshot.disk[i].fs = provided.disk[i].fs
         /\ snapshot.disk[i].percentage = provided.disk[i].use
    /\ IF provided.network = <<>>
       THEN snapshot.network.rx_sec = 0 /\ snapshot.network.tx_sec = 0
       ELSE /\ snapshot.network.rx_sec = provided.network[1].rx_sec
            /\ snapshot.network.tx_sec = provided.network[1].tx_sec

\* C25 as stated: for provider results with cpu load c, memory total t > 0
\* and used u, disks d1..dn and interfaces n1..nk, the snapshot has cpu load
\* c, memory percentage 100*u/t, the disks in the provider's order with the
\* provider's use figures, and the rates of the first interface (0 when
\* there is none).
C25_SnapshotMatchesProviders ==
    (provided # Rejected /\ snapshot # Pending) =>
        /\ SnapshotCopiesProviders
        /\ snapshot.memory.percentage.tenths * provided.mem.total =
               10 * 100 * provided.mem.used

\* C25, amended: the memory percentage is 100*u/t rounded to one decimal
\* place (the decimal string with one fractional digit nearest to it); the
\* rest as stated.
C25_SnapshotMatchesRounded ==
    (provided # Rejected /\ snapshot # Pending) =>
        LET t == provided.mem.total
            u == provided.mem.used
            n == snapshot.memory.percentage.tenths
            d == n * t - 10 * 100 * u
        IN  /\ SnapshotCopiesProviders
            /\ "tenths" \in DOMAIN snapshot.memory.percentage
            /\ 2 * d <= t /\ 2 * d > -t

\* C25 witness: a sample of memory 2 of 3 with two disks and two interfaces
\* has been taken: its percentage is the string 66.7
C25_Witness ==
    /\ provided # Rejected
    /\ provided.mem.total = 3 /\ provided.mem.used = 2
    /\ Len(provided.disk) = 2 /\ provided.disk[1] # provided.disk[2]
    /\ Len(provided.network) = 2
    /\ snapshot # Pending
    /\ snapshot.memory.percentage = [tenths |-> 667]



----------------------------------------------------------------------------
\* Startup with a module whose init never settles

\* the module at path is registered and enabled and its init terminates
LoadsAtStartup(path) ==
    /\ initTask.pc = "load"
    /\ path \in DOMAIN plugins
    /\ ConfigEnabled(pluginConfigs, path)
    /\ HasInit(files[path]) /\ files[path].init = "ok"

\* C27: a module whose init never resolves stalls only its own load: at
\* startup every enabled module whose init terminates eventually becomes
\* active, and the plugin manager eventually becomes available.
C27_HungInitStallsOnlyItself ==
    /\ <>(initTask.pc = "ready")
    /\ \A path \in Paths :
         [](LoadsAtStartup(path) => <>(path \in activePlugins))



----------------------------------------------------------------------------
\* Loads in flight across a delete or a disable

\* a deletePlugin(path) or a togglePlugin(path, false) has completed and left
\* the module at path deleted or disabled
Withdrawn(path) ==
    /\ \/ path \notin DOMAIN plugins
       \/ ~ConfigEnabled(pluginConfigs, path)
    /\ \A t \in tasks :
         t.path = path =>
             /\ t.op # "delete"
             /\ ~(t.op = "toggle" /\ ~t.enabled)

\* a step in which the load of togglePlugin(path, true), which had enabled the
\* module when it began, ends while the module is withdrawn
LateLoadEnds(t) ==
    /\ t \in tasks
    /\ t.op = "toggle" /\ t.enabled
    /\ t.pc \in {"read", "init"}
    /\ \A u \in tasks' : u.id = t.id => u.pc \notin {"read", "init"}
    /\ Withdrawn(t.path)

\* C28: a load that is still awaiting its file read or its init when a delete
\* or a disable of the same module completes does not put the module into
\* the active set when it ends.
C28_LateLoadStaysInactive ==
    [][\A t \in tasks : LateLoadEnds(t) => t.path \notin activePlugins']_vars



----------------------------------------------------------------------------
\* Plugin tabs of one id

\* C29: no two UI surfaces with the same id exist at once: whatever loads,
\* toggles and reloads have run, the sidebar holds at most one item and the
\* content area at most one tab content for each tab id.
C29_OneSurfacePerId ==
    \A i \in TabIds : navItems[i] <= 1 /\ tabContents[i] <= 1



----------------------------------------------------------------------------
\* Code and init once per activation

\* a step in which the load of task t runs the code of its module:
\* createPluginModule, then init when the module exports one
CodeRuns(t) ==
    /\ t \in tasks
    /\ t.pc = "read"
    /\ \A u \in tasks' : u.id = t.id => u.pc # "read"

\* another togglePlugin(path, true) has run the code of the same module and
\* awaits its init
LoadInFlight(t) ==
    \E u \in tasks :
        /\ u.id # t.id
        /\ u.path = t.path
        /\ u.op = "toggle" /\ u.enabled
        /\ u.pc = "init"

\* C30: the code and the init of a module run at most once per activation: a
\* togglePlugin(path, true) for a module that is already active, or whose
\* load by an earlier togglePlugin(path, true) is in flight, does not run the
\* code of the module again.
C30_CodeRunsOncePerActivation ==
    [][\A t \in tasks :
          (CodeRuns(t) /\ t.op = "toggle")
              => (t.path \notin activePlugins /\ ~LoadInFlight(t))]_vars


====
